---- MODULE Spec2Model ----
(***************************************************************************)
(* Model of the training job orchestration of TRAINER.py (TrainingApp):    *)
(* the interactive context's handlers start_training, pause_training,      *)
(* cancel_training and on_closing, and the worker thread running           *)
(* train_model; the progress relay of ProgressCallback; the dataset tools  *)
(* estimate_memory, CustomDataset.load_data and convert_dataset.           *)
(***************************************************************************)
EXTENDS Integers, FiniteSets, Sequences, TLC

\* ---------------------------------------------------------------- bounds
MaxThreads == 2      \* Thread objects start_training may create (Spec)
MaxSteps == 2        \* state.max_steps the engine announces (Spec)
OneJobThreads == 1   \* the same two bounds for SpecOneJob
OneJobSteps == 1
MaxLines == 4        \* lines of a jsonl source (SpecLoad)
MaxRecords == 2      \* items, rows or entries of any other source
MaxConversions == 2  \* convert_dataset calls followed

\* ------------------------------------------------------- entry contents
\* The Tk StringVars hold text.  Init gives the texts of __init__; Forms are
\* the texts the operator may leave in the form before the next handler
\* runs (typing into an Entry or Combobox runs no code of the program).
Fields == {"batch_size", "epochs", "learning_rate", "max_length",
           "warmup_steps", "weight_decay", "gradient_accumulation_steps"}

DefaultEntries ==
    [f \in Fields |->
        CASE f = "batch_size" -> "1"
          [] f = "epochs" -> "1"
          [] f = "learning_rate" -> "2e-5"
          [] f = "max_length" -> "32"
          [] f = "warmup_steps" -> "0"
          [] f = "weight_decay" -> "0.01"
          [] f = "gradient_accumulation_steps" -> "1"]

Typed ==
    {<<"batch_size", "0">>, <<"batch_size", "abc">>, <<"epochs", "0">>,
     <<"epochs", "-1">>, <<"learning_rate", "1e-5">>,
     <<"learning_rate", "0">>, <<"learning_rate", "abc">>,
     <<"learning_rate", "nan">>, <<"max_length", "0">>,
     <<"warmup_steps", "-1">>, <<"weight_decay", "-1">>,
     <<"gradient_accumulation_steps", "0">>}

Forms ==
    {[entries |-> [DefaultEntries EXCEPT ![c[1]] = c[2]],
      data |-> "ds.jsonl", model |-> "model"] : c \in Typed}
    \cup {[entries |-> DefaultEntries, data |-> d, model |-> m] :
             d \in {"", "ds.jsonl"}, m \in {"", "model"}}

\* Python int(s): decimal integer literals only; anything else ValueError.
PyInt(s) ==
    CASE s = "1" -> [ok |-> TRUE, val |-> 1]
      [] s = "0" -> [ok |-> TRUE, val |-> 0]
      [] s = "-1" -> [ok |-> TRUE, val |-> -1]
      [] s = "32" -> [ok |-> TRUE, val |-> 32]
      [] OTHER -> [ok |-> FALSE, val |-> 0]

\* Python float(s).  Values are kept in millionths; nan is a float for which
\* every ordering comparison is False.
PyFloat(s) ==
    CASE s = "1" -> [ok |-> TRUE, nan |-> FALSE, val |-> 1000000]
      [] s = "0" -> [ok |-> TRUE, nan |-> FALSE, val |-> 0]
      [] s = "-1" -> [ok |-> TRUE, nan |-> FALSE, val |-> -1000000]
      [] s = "32" -> [ok |-> TRUE, nan |-> FALSE, val |-> 32000000]
      [] s = "1.5" -> [ok |-> TRUE, nan |-> FALSE, val |-> 1500000]
      [] s = "0.01" -> [ok |-> TRUE, nan |-> FALSE, val |-> 10000]
      [] s = "1e-5" -> [ok |-> TRUE, nan |-> FALSE, val |-> 10]
      [] s = "2e-5" -> [ok |-> TRUE, nan |-> FALSE, val |-> 20]
      [] s = "nan" -> [ok |-> TRUE, nan |-> TRUE, val |-> 0]
      [] OTHER -> [ok |-> FALSE, nan |-> FALSE, val |-> 0]

\* Non-ASCII widget texts of the source are written "zh:<meaning>".

\* x <= 0 on a parsed float
FloatLeqZero(x) == ~x.nan /\ x.val <= 0

\* ----------------------------------------------------------- data files
\* A dataset is an entry of data_dir: a directory or a jsonl, json or csv
\* file.  A file is kept as the values its parser yields.

Names == {"ds", "ds.jsonl", "ds.json", "ds.csv", "ds.txt"}

\* os.path.splitext(name)
splitext(name) ==
    CASE name = "ds.jsonl" -> <<"ds", ".jsonl">>
      [] name = "ds.json" -> <<"ds", ".json">>
      [] name = "ds.csv" -> <<"ds", ".csv">>
      [] name = "ds.txt" -> <<"ds", ".txt">>
      [] OTHER -> <<name, "">>

\* A Python value of a field: t is its type ("absent": no such key or
\* column; "null": None; "nan": float nan; "str"; "num"; "list"), v its text.
Val(t, v) == [t |-> t, v |-> v]

Absent == Val("absent", "")

Null == Val("null", "")

NaN == Val("nan", "")

Str(v) == Val("str", v)

Num(v) == Val("num", v)

\* bool(x)
Truthy(x) ==
    CASE x.t = "str" -> x.v # ""
      [] x.t = "num" -> x.v # "0"
      [] x.t = "list" -> x.v # ""
      [] x.t = "nan" -> TRUE
      [] OTHER -> FALSE

\* str.strip()
Strip(v) ==
    CASE v = " " -> ""
      [] v = " a" -> "a"
      [] OTHER -> v

\* One line, array element, row or directory entry.  j: "obj" a JSON object
\* or a csv row, with its text and image; "str" a JSON string s; "bad" text
\* json.loads rejects; "txt", "md", "png" a file of <dir>/text with stripped
\* content s, image being the path of images/<name>.jpg when that exists.
Item(j, s, text, image) == [j |-> j, s |-> s, text |-> text, image |-> image]

Obj(text, image) == Item("obj", "", text, image)

Bad == Item("bad", "", Absent, Absent)

JStr(s) == Item("str", s, Absent, Absent)

Entry(j, s, image) == Item(j, s, Absent, image)

\* fmt: "dir", "jsonl", "json", "csv", "other", "missing".  top: for json
\* the type of the document ("list", "obj", "scalar", "bad" = not JSON); for
\* a directory "text" when the text sub-directory exists; for csv "empty"
\* for a file without a header line.
File(fmt, top, columns, items) ==
    [fmt |-> fmt, top |-> top, columns |-> columns, items |-> items]

Missing == File("missing", "", <<>>, <<>>)

SeqsUpTo(S, n) == UNION {[1 .. k -> S] : k \in 0 .. n}

Has(seq, x) == \E i \in 1 .. Len(seq) : seq[i] = x

\* ---------------------------------------------------------- CustomDataset
Loaded(data) == [ran |-> TRUE, ok |-> TRUE, error |-> "", data |-> data]

Raised(error) == [ran |-> TRUE, ok |-> FALSE, error |-> error, data |-> <<>>]

NotLoaded == [ran |-> FALSE, ok |-> FALSE, error |-> "", data |-> <<>>]

\* isinstance(item, dict) and 'text' in item and item['text']
KeepsItem(item) ==
    item.j = "obj" /\ item.text.t # "absent" /\ Truthy(item.text)

\* lines 89-107
load_directory_data(file) ==
    LET Readable(e) == e.j \in {"txt", "md"} /\ e.s # ""
        read == SelectSeq(file.items, Readable)
    IN  IF file.top # "text"
        THEN Raised("ValueError")
        ELSE Loaded([k \in 1 .. Len(read) |-> Obj(Str(read[k].s), Null)])

\* pd.notna(row['text']) and str(row['text']).strip()
KeepsRow(row) ==
    /\ row.text.t \notin {"absent", "null", "nan"}
    /\ Strip(row.text.v) # ""

\* _load_file_data with json.loads failing the whole load
load_file_data_abort(file) ==
    LET rows == SelectSeq(file.items, KeepsRow)
        Row(r) ==
            Obj(Str(Strip(r.text.v)),
                IF Has(file.columns, "image") THEN r.image ELSE Null)
    IN  CASE file.fmt = "jsonl" ->
                IF Has(file.items, Bad)
                THEN Raised("JSONDecodeError")
                ELSE Loaded(SelectSeq(file.items, KeepsItem))
          [] file.fmt = "json" ->
                IF file.top = "bad"
                THEN Raised("JSONDecodeError")
                ELSE IF file.top = "list"
                THEN Loaded(SelectSeq(file.items, KeepsItem))
                ELSE IF file.top = "obj" /\ KeepsItem(file.items[1])
                THEN Loaded(file.items)
                ELSE Loaded(<<>>)
          [] file.fmt = "csv" ->
                IF file.top = "empty"
                THEN Raised("EmptyDataError")
                ELSE IF Has(file.columns, "text")
                THEN Loaded([k \in 1 .. Len(rows) |-> Row(rows[k])])
                ELSE Loaded(<<>>)
          [] file.fmt = "missing" -> Raised("FileNotFoundError")
          [] OTHER -> Loaded(<<>>)

\* lines 109-147
load_file_data(file) ==
    LET rows == SelectSeq(file.items, KeepsRow)
        Row(r) ==
            Obj(Str(Strip(r.text.v)),
                IF Has(file.columns, "image") THEN r.image ELSE Null)
    IN  CASE file.fmt = "jsonl" ->
                Loaded(SelectSeq(file.items, KeepsItem))
          [] file.fmt = "json" ->
                IF file.top = "bad"
                THEN Raised("JSONDecodeError")
                ELSE IF file.top = "list"
                THEN Loaded(SelectSeq(file.items, KeepsItem))
                ELSE IF file.top = "obj" /\ KeepsItem(file.items[1])
                THEN Loaded(file.items)
                ELSE Loaded(<<>>)
          [] file.fmt = "csv" ->
                IF file.top = "empty"
                THEN Raised("EmptyDataError")
                ELSE IF Has(file.columns, "text")
                THEN Loaded([k \in 1 .. Len(rows) |-> Row(rows[k])])
                ELSE Loaded(<<>>)
          [] file.fmt = "missing" -> Raised("FileNotFoundError")
          [] OTHER -> Loaded(<<>>)

\* load_data without the test of lines 80-81
load_data_unchecked(file) ==
    IF file.fmt = "dir"
    THEN load_directory_data(file)
    ELSE load_file_data(file)

\* lines 73-87
load_data(file) ==
    LET r == IF file.fmt = "dir"
             THEN load_directory_data(file)
             ELSE load_file_data(file)
    IN  IF r.ok /\ r.data = <<>> THEN Raised("ValueError") ELSE r

\* -------------------------------------------------------- convert_dataset
\* The object `data' of lines 929-951: top is "list", "obj" (a dict) or
\* "scalar".
Data(top, items) == [ok |-> TRUE, top |-> top, items |-> items]

NoData == [ok |-> FALSE, top |-> "", items |-> <<>>]

\* lines 921-951
ConvertRead(file) ==
    LET Readable(e) == e.j = "txt" /\ e.s # ""
        read == SelectSeq(file.items, Readable)
        Record(e) ==
            Obj(Str(e.s), IF e.image.t = "absent" THEN Null ELSE e.image)
        Dict(r) ==
            Obj(IF Has(file.columns, "text") THEN r.text ELSE Absent,
                IF Has(file.columns, "image") THEN r.image ELSE Absent)
    IN  CASE file.fmt = "dir" ->
                IF file.top # "text"
                THEN NoData
                ELSE Data("list", [k \in 1 .. Len(read) |-> Record(read[k])])
          [] file.fmt = "jsonl" ->
                IF Has(file.items, Bad)
                THEN NoData
                ELSE Data("list", file.items)
          [] file.fmt = "json" ->
                IF file.top = "bad"
                THEN NoData
                ELSE Data(file.top, file.items)
          [] file.fmt = "csv" ->
                IF file.top = "empty"
                THEN NoData
                ELSE Data("list",
                          [k \in 1 .. Len(file.items) |-> Dict(file.items[k])])
          [] OTHER -> NoData

\* What to_csv followed by read_csv makes of a cell
Cell(x) == IF x.t \in {"absent", "null", "nan"} \/ x = Str("") THEN NaN ELSE x

\* pd.DataFrame(items).to_csv(...): the columns are the keys met
ToCsv(items) ==
    LET IsObj(i) == i.j = "obj"
        WithText(i) == i.j = "obj" /\ i.text.t # "absent"
        WithImage(i) == i.j = "obj" /\ i.image.t # "absent"
        text == SelectSeq(items, WithText) # <<>>
        image == SelectSeq(items, WithImage) # <<>>
        scalars == SelectSeq(items, IsObj) # items
        Row(i) == Obj(IF text THEN Cell(i.text) ELSE Absent,
                      IF image THEN Cell(i.image) ELSE Absent)
        columns == (IF scalars THEN <<"0">> ELSE <<>>)
                     \o (IF text THEN <<"text">> ELSE <<>>)
                     \o (IF image THEN <<"image">> ELSE <<>>)
    IN  IF items = <<>>
        THEN File("csv", "empty", <<>>, <<>>)
        ELSE File("csv", "", columns,
                  [k \in 1 .. Len(items) |-> Row(items[k])])

\* lines 953-963.  written: the target was opened for writing.
ConvertWrite(data, target_format) ==
    LET Keys(d) == (IF d.text.t # "absent" THEN <<JStr("text")>> ELSE <<>>)
                     \o (IF d.image.t # "absent" THEN <<JStr("image")>>
                         ELSE <<>>)
    IN  CASE target_format = "jsonl" ->
                IF data.top = "list"
                THEN [ok |-> TRUE, written |-> TRUE,
                      file |-> File("jsonl", "", <<>>, data.items)]
                ELSE IF data.top = "obj"
                THEN [ok |-> TRUE, written |-> TRUE,
                      file |-> File("jsonl", "", <<>>, Keys(data.items[1]))]
                ELSE [ok |-> FALSE, written |-> TRUE,
                      file |-> File("jsonl", "", <<>>, <<>>)]
          [] target_format = "json" ->
                [ok |-> TRUE, written |-> TRUE,
                 file |-> File("json", data.top, <<>>, data.items)]
          [] target_format = "csv" ->
                IF data.top = "list"
                THEN [ok |-> TRUE, written |-> TRUE,
                      file |-> ToCsv(data.items)]
                ELSE [ok |-> FALSE, written |-> FALSE, file |-> Missing]
          [] OTHER -> [ok |-> TRUE, written |-> FALSE, file |-> Missing]

\* ------------------------------------------------------- estimate_memory
\* Sizes in MB as os.path.getsize, psutil and pynvml report them; raises:
\* one of these calls raises.
Env(model_size, dataset_size, available_ram, available_vram, raises) ==
    [model_size |-> model_size, dataset_size |-> dataset_size,
     available_ram |-> available_ram, available_vram |-> available_vram,
     raises |-> raises]

\* nothing short; RAM short; VRAM short; RAM exactly used up; a failure
Envs ==
    {Env(0, 0, 8000, 16000, FALSE), Env(0, 150, 25, 16000, FALSE),
     Env(4000, 0, 8000, 300, FALSE), Env(0, 0, 25, 16000, FALSE),
     Env(0, 0, 8000, 16000, TRUE)}

QuietEnv == Env(0, 0, 8000, 16000, FALSE)

NoEstimate ==
    [ran |-> FALSE, is_training |-> FALSE, failed |-> FALSE, total_ram |-> 0,
     total_vram |-> 0, available_ram |-> 0, available_vram |-> 0,
     warned |-> FALSE]

\* lines 619-641, amounts in tenths of a MB.  available_vram is read only
\* when a device exists.
Estimate(env, training, devices) ==
    LET total_ram == (env.model_size + env.dataset_size + 50) * 5
        total_vram == env.model_size
        available_ram == env.available_ram * 10
        available_vram == IF devices > 0 THEN env.available_vram * 10 ELSE 0
    IN  IF env.raises
        THEN [NoEstimate EXCEPT !.ran = TRUE, !.is_training = training,
                                !.failed = TRUE]
        ELSE [ran |-> TRUE, is_training |-> training, failed |-> FALSE,
              total_ram |-> total_ram, total_vram |-> total_vram,
              available_ram |-> available_ram,
              available_vram |-> available_vram,
              warned |-> /\ devices > 0
                         /\ \/ total_vram > available_vram
                            \/ total_ram > available_ram]

\* ----------------------------------------------------------------- state
VARIABLES
    data_var,            \* self.data_var      ("" = nothing selected)
    model_var,           \* self.model_var
    entries,             \* the seven hyperparameter StringVars
    is_training,         \* self.is_training
    is_paused,           \* self.is_paused
    start_button,        \* state of self.start_button
    pause_button,        \* [state, text] of self.pause_button
    cancel_button,       \* state of self.cancel_button
    status,              \* text of self.status
    progress,            \* self.progress['value']
    training_thread,     \* self.training_thread (0 = None)
    threads,             \* every Thread(target=self.train_model) created
    clean_memory_calls,  \* number of executions of clean_memory
    destroyed,           \* self.root.destroy() has run
    last,                \* the last job handler call and the state it found
    cb,                  \* per thread, the fields of its ProgressCallback
    after_queue,         \* callbacks posted with root.after(0, ...)
    device_count,        \* self.device_count
    estimated,           \* what estimate_memory did when it last ran
    target_format_var,   \* self.target_format_var
    files,               \* the entries of self.data_dir, by name
    loaded,              \* the last CustomDataset construction
    conv,                \* the convert_dataset calls made so far
    engine               \* per thread, the form at start and the engine's
                         \* configuration

vars == <<data_var, model_var, entries, is_training, is_paused, start_button,
          pause_button, cancel_button, status, progress, training_thread,
          threads, clean_memory_calls, destroyed, last, cb, after_queue,
          device_count, estimated, target_format_var, files, loaded, conv,
          engine>>

\* the state of the progress relay (ProgressCallback and the Tk queue)
relayVars == <<cb, after_queue>>

\* the state of the dataset tools (estimator, loader, converter)
toolVars == <<device_count, estimated, target_format_var, files, loaded,
              conv>>

\* with the record of what each job handed to the engine
dataVars == <<toolVars, engine>>

ThreadIds == 1 .. MaxThreads

NoThread ==
    [pc |-> "none", global_step |-> 0, max_steps |-> 0, in_step |-> FALSE,
     saved |-> FALSE, logged_error |-> "", cancelled |-> FALSE]

Created == {t \in ThreadIds : threads[t].pc # "none"}

\* Thread.is_alive(): the target function has not returned or raised
Alive == {t \in ThreadIds : threads[t].pc \notin {"none", "done", "raised"}}

\* the job state the operator can observe
JobView ==
    [is_training |-> is_training, is_paused |-> is_paused,
     progress |-> progress, training_thread |-> training_thread,
     nthreads |-> Cardinality(Created),
     start_button |-> start_button, pause_button |-> pause_button,
     cancel_button |-> cancel_button, status |-> status]

\* dialog: the show_error dialog the call put up ("" = none)
Call(op, confirmed, dialog) ==
    [op |-> op, confirmed |-> confirmed, dialog |-> dialog, pre |-> JobView]

\* ------------------------------------------------ the engine's arguments
NoArgs ==
    [built |-> FALSE, num_train_epochs |-> 0,
     per_device_train_batch_size |-> 0, learning_rate |-> 0,
     gradient_accumulation_steps |-> 0, weight_decay |-> 0,
     warmup_steps |-> 0, max_length |-> 0, device |-> ""]

NoEngine == [at_start |-> DefaultEntries, device_var |-> "", args |-> NoArgs]

\* lines 733, 785-815: what train_model passes to CustomDataset and
\* TrainingArguments and the device it uses (floats in millionths)
TrainingArguments(e) ==
    [built |-> TRUE,
     num_train_epochs |-> PyInt(e["epochs"]).val,
     per_device_train_batch_size |-> PyInt(e["batch_size"]).val,
     learning_rate |-> PyFloat(e["learning_rate"]).val,
     gradient_accumulation_steps |-> 4,
     weight_decay |-> 10000,
     warmup_steps |-> 100,
     max_length |-> 32,
     device |-> "cuda"]

\* a dataset present in data_dir when the program starts
Source(name, file) == [name |-> name, file |-> file]

NoSource == Source("", Missing)

DefaultSource ==
    Source("ds.jsonl", File("jsonl", "", <<>>, <<Obj(Str("a"), Absent)>>))

\* __init__ (254-301) and create_widgets, whose last two calls (441-442)
\* are update_data_list and update_model_list: the first dataset listed is
\* selected and, with a model selected too, estimate_memory has run.
InitOf(sources, models, devices, envs) ==
    /\ \E src \in sources :
          /\ data_var = src.name
          /\ files = [n \in Names |-> IF n = src.name THEN src.file
                                      ELSE Missing]
    /\ model_var \in models
    /\ device_count \in devices
    /\ \E env \in envs :
          estimated = IF data_var # "" /\ model_var # ""
                      THEN Estimate(env, FALSE, device_count)
                      ELSE NoEstimate
    /\ target_format_var = "jsonl"
    /\ loaded = NotLoaded
    /\ conv = <<>>
    /\ engine = [t \in ThreadIds |-> NoEngine]
    /\ entries = DefaultEntries
    /\ is_training = FALSE
    /\ is_paused = FALSE
    /\ start_button = "normal"
    /\ pause_button = [state |-> "disabled", text |-> "zh:pause"]
    /\ cancel_button = "disabled"
    /\ status = "zh:ready"
    /\ progress = 0
    /\ training_thread = 0
    /\ threads = [t \in ThreadIds |-> NoThread]
    /\ clean_memory_calls = 0
    /\ destroyed = FALSE
    /\ last = [op |-> "init", confirmed |-> FALSE, dialog |-> "", pre |-> JobView]
    /\ cb = [t \in ThreadIds |-> [total_steps |-> 0, current_step |-> 0]]
    /\ after_queue = <<>>

Init == InitOf({DefaultSource}, {"model"}, {1}, {QuietEnv})

\* ------------------------------------------------ the operator's typing
UIUnchanged ==
    UNCHANGED <<is_training, is_paused, start_button, pause_button,
                cancel_button, status, progress, training_thread>>

SetForm(form) ==
    /\ ~destroyed
    /\ form # [entries |-> entries, data |-> data_var, model |-> model_var]
    /\ entries' = form.entries
    /\ data_var' = form.data
    /\ model_var' = form.model
    /\ last' = Call("edit", FALSE, "")
    /\ UIUnchanged
    /\ UNCHANGED <<threads, clean_memory_calls, destroyed>>

\* ------------------------------------------------------- start_training
\* ValidInput with the comparisons written < instead of <=
ValidInput_strict(e) ==
    LET batch_size == PyInt(e["batch_size"])
        epochs == PyInt(e["epochs"])
        learning_rate == PyFloat(e["learning_rate"])
    IN  /\ batch_size.ok
        /\ epochs.ok
        /\ learning_rate.ok
        /\ ~(batch_size.val < 0 \/ epochs.val < 0
             \/ (~learning_rate.nan /\ learning_rate.val < 0))

\* lines 649-658: the try block; True when no ValueError is raised
ValidInput(e) ==
    LET batch_size == PyInt(e["batch_size"])
        epochs == PyInt(e["epochs"])
        learning_rate == PyFloat(e["learning_rate"])
    IN  /\ batch_size.ok
        /\ epochs.ok
        /\ learning_rate.ok
        /\ ~(batch_size.val <= 0 \/ epochs.val <= 0
             \/ FloatLeqZero(learning_rate))

NewThread ==
    [pc |-> "load", global_step |-> 0, max_steps |-> 0, in_step |-> FALSE,
     saved |-> FALSE, logged_error |-> "", cancelled |-> FALSE]

\* maxThreads bounds the Thread objects created, nothing else
start_training(maxThreads) ==
    /\ ~destroyed
    /\ (data_var # "" /\ model_var # "" /\ ValidInput(entries))
          => Cardinality(Created) < maxThreads
    /\ IF data_var = "" \/ model_var = ""
       THEN /\ last' = Call("start", FALSE, "select dataset and model")
            /\ UIUnchanged
            /\ UNCHANGED threads
       ELSE IF ~ValidInput(entries)
       THEN /\ last' = Call("start", FALSE, "invalid input")
            /\ UIUnchanged
            /\ UNCHANGED threads
       ELSE LET t == Cardinality(Created) + 1
            IN  /\ is_training' = TRUE
                /\ is_paused' = FALSE
                /\ start_button' = "disabled"
                /\ pause_button' = [state |-> "normal", text |-> "Pause"]
                /\ cancel_button' = "normal"
                /\ status' = "Training in progress..."
                /\ progress' = 0
                /\ training_thread' = t
                /\ threads' = [threads EXCEPT ![t] = NewThread]
                /\ last' = Call("start", FALSE, "")
    /\ UNCHANGED <<data_var, model_var, entries, clean_memory_calls,
                   destroyed>>

\* ------------------------------------------------------- pause_training
\* pause_training as a one-way gate: it sets is_paused instead of flipping it
pause_training_oneway ==
    /\ ~destroyed
    /\ last' = Call("pause", FALSE, "")
    /\ IF ~is_training
       THEN UNCHANGED <<is_paused, pause_button, status>>
       ELSE /\ is_paused' = TRUE
            /\ pause_button' = [pause_button EXCEPT !.text = "Resume"]
            /\ status' = "Training paused..."
    /\ UNCHANGED <<data_var, model_var, entries, is_training, start_button,
                   cancel_button, progress, training_thread, threads,
                   clean_memory_calls, destroyed>>

pause_training ==
    /\ ~destroyed
    /\ last' = Call("pause", FALSE, "")
    /\ IF ~is_training
       THEN UNCHANGED <<is_paused, pause_button, status>>
       ELSE /\ is_paused' = ~is_paused
            /\ IF is_paused'
               THEN /\ pause_button' = [pause_button EXCEPT !.text = "Resume"]
                    /\ status' = "Training paused..."
               ELSE /\ pause_button' = [pause_button EXCEPT !.text = "Pause"]
                    /\ status' = "Training in progress..."
    /\ UNCHANGED <<data_var, model_var, entries, is_training, start_button,
                   cancel_button, progress, training_thread, threads,
                   clean_memory_calls, destroyed>>

\* ------------------------------------------------------ cancel_training
\* `confirmed' is the answer to messagebox.askyesno.  The handler writes
\* flags and widgets only; threads[..].cancelled is a history field noting
\* that the confirmation came before the thread's training loop returned.
InLoop(t) == t # 0 /\ threads[t].pc \in {"load", "args", "train"}

\* CancelJob leaving is_paused as it is
CancelJob_keeps_paused ==
    /\ is_training' = FALSE
    /\ UNCHANGED is_paused
    /\ start_button' = "normal"
    /\ pause_button' = [state |-> "disabled", text |-> "Pause"]
    /\ cancel_button' = "disabled"
    /\ status' = "Training cancelled."
    /\ progress' = 0
    /\ UNCHANGED training_thread
    /\ threads' = IF InLoop(training_thread)
                  THEN [threads EXCEPT ![training_thread].cancelled = TRUE]
                  ELSE threads

\* lines 688-695: the branch taken when the operator answers yes
CancelJob ==
    /\ is_training' = FALSE
    /\ is_paused' = FALSE
    /\ start_button' = "normal"
    /\ pause_button' = [state |-> "disabled", text |-> "Pause"]
    /\ cancel_button' = "disabled"
    /\ status' = "Training cancelled."
    /\ progress' = 0
    /\ UNCHANGED training_thread
    /\ threads' = IF InLoop(training_thread)
                  THEN [threads EXCEPT ![training_thread].cancelled = TRUE]
                  ELSE threads

\* cancel_training with the answer of the confirmation dialog ignored
cancel_training_unasked(confirmed) ==
    /\ ~destroyed
    /\ last' = Call("cancel", confirmed, "")
    /\ IF ~is_training
       THEN /\ UIUnchanged
            /\ UNCHANGED threads
       ELSE CancelJob
    /\ UNCHANGED <<data_var, model_var, entries, clean_memory_calls,
                   destroyed>>

cancel_training(confirmed) ==
    /\ ~destroyed
    /\ last' = Call("cancel", confirmed, "")
    /\ IF ~is_training \/ ~confirmed
       THEN /\ UIUnchanged
            /\ UNCHANGED threads
       ELSE CancelJob
    /\ UNCHANGED <<data_var, model_var, entries, clean_memory_calls,
                   destroyed>>

\* ----------------------------------------------------------- on_closing
on_closing(confirmed) ==
    /\ ~destroyed
    /\ last' = Call("close", confirmed, "")
    /\ IF is_training /\ ~confirmed
       THEN UNCHANGED <<is_training, destroyed>>
       ELSE /\ is_training' = FALSE
            /\ destroyed' = TRUE
    /\ UNCHANGED <<data_var, model_var, entries, is_paused, start_button,
                   pause_button, cancel_button, status, progress,
                   training_thread, threads, clean_memory_calls>>

\* ---------------------------------------------------------- clean_memory
\* lines 705-717.  The method is defined but no handler and no line of
\* train_model calls it, so no action below contains this step.
clean_memory == clean_memory_calls' = clean_memory_calls + 1

\* ---------------------------------------------------------- train_model
\* The worker thread.  Every exception is logged and re-raised (lines
\* 832-834), which ends the thread; nothing else is done on that path.
Raise(t, what) ==
    threads' = [threads EXCEPT ![t] =
                   [pc |-> "raised", global_step |-> 0, max_steps |-> 0,
                    in_step |-> FALSE, saved |-> FALSE,
                    logged_error |-> what, cancelled |-> @.cancelled]]

ThreadFrame ==
    UNCHANGED <<data_var, model_var, entries, is_training, is_paused,
                start_button, pause_button, cancel_button, status, progress,
                training_thread, clean_memory_calls, destroyed, last>>

\* lines 733-790: device, tokenizer, model, LoRA, then CustomDataset(...),
\* whose load_data raises when the source gives no record
ThreadLoad(t, outcome) ==
    /\ threads[t].pc = "load"
    /\ IF outcome = "ok"
       THEN threads' = [threads EXCEPT ![t].pc = "args"]
       ELSE Raise(t, outcome)
    /\ ThreadFrame

\* lines 799-826: TrainingArguments re-reads three entries on the worker
\* thread (int / float may raise ValueError); trainer.train() then builds
\* its DataLoader, which refuses a batch size <= 0, and announces
\* state.max_steps: no step for epochs <= 0, else the job's `steps'.
ThreadArgs(t, steps) ==
    /\ threads[t].pc = "args"
    /\ LET epochs == PyInt(entries["epochs"])
           batch_size == PyInt(entries["batch_size"])
           learning_rate == PyFloat(entries["learning_rate"])
       IN  IF ~(epochs.ok /\ batch_size.ok /\ learning_rate.ok)
           THEN Raise(t, "ValueError")
           ELSE IF batch_size.val <= 0
           THEN Raise(t, "engine")
           ELSE threads' = [threads EXCEPT ![t].pc = "train",
                               ![t].max_steps =
                                   IF epochs.val > 0 THEN steps ELSE 0]
    /\ ThreadFrame

\* line 826, inside trainer.train(): one optimizer step starts
StepBegin(t) ==
    /\ threads[t].pc = "train"
    /\ ~threads[t].in_step
    /\ threads[t].global_step < threads[t].max_steps
    /\ threads' = [threads EXCEPT ![t].in_step = TRUE]
    /\ ThreadFrame

\* line 826: the step ends (state.global_step += 1) or the engine raises
StepEnd(t, ok) ==
    /\ threads[t].pc = "train"
    /\ threads[t].in_step
    /\ IF ok
       THEN threads' = [threads EXCEPT ![t].in_step = FALSE,
                           ![t].global_step = threads[t].global_step + 1]
       ELSE Raise(t, "engine")
    /\ ThreadFrame

\* line 826: trainer.train() returns after the last step
TrainReturns(t) ==
    /\ threads[t].pc = "train"
    /\ ~threads[t].in_step
    /\ threads[t].global_step = threads[t].max_steps
    /\ threads' = [threads EXCEPT ![t].pc = "save"]
    /\ ThreadFrame

\* lines 829-830: self.trainer.save_model(), then train_model returns
SaveModel(t, ok) ==
    /\ threads[t].pc = "save"
    /\ IF ok
       THEN threads' = [threads EXCEPT ![t].pc = "done", ![t].saved = TRUE]
       ELSE Raise(t, "save")
    /\ ThreadFrame

train_model(t, steps) ==
    \/ \E outcome \in {"ok", "engine", "dataset"} : ThreadLoad(t, outcome)
    \/ ThreadArgs(t, steps)
    \/ StepBegin(t)
    \/ \E ok \in BOOLEAN : StepEnd(t, ok)
    \/ TrainReturns(t)
    \/ \E ok \in BOOLEAN : SaveModel(t, ok)

\* ------------------------------------------------------------------ spec
\* train_model builds Trainer(model, args, train_dataset, data_collator)
\* without callbacks (lines 818-823): no ProgressCallback exists in a run
\* of the program as wired, and nothing is ever posted.
NextOf(maxThreads, steps) ==
    /\ \/ \E form \in Forms : SetForm(form)
       \/ start_training(maxThreads)
       \/ pause_training
       \/ \E confirmed \in BOOLEAN : cancel_training(confirmed)
       \/ \E confirmed \in BOOLEAN : on_closing(confirmed)
       \/ \E t \in ThreadIds : train_model(t, steps)
    /\ UNCHANGED <<relayVars, dataVars>>

Next == NextOf(MaxThreads, MaxSteps)

Spec == Init /\ [][Next]_vars

\* the same program with the bounds of one job
NextOneJob == NextOf(OneJobThreads, OneJobSteps)

SpecOneJob == Init /\ [][NextOneJob]_vars

\* ------------------------------------------------------ ProgressCallback
\* The class of lines 199-231, driven by the engine's callback protocol
\* (on_train_begin, on_step_end after every step, on_epoch_end, on_train_end)
\* as it is when the callback is registered with the Trainer.
StepText(k, n) ==
    "Training in progress... Step " \o ToString(k) \o "/" \o ToString(n)

\* lines 210-214
on_train_begin(t) ==
    cb' = [cb EXCEPT ![t] = [total_steps |-> threads'[t].max_steps,
                             current_step |-> 0]]

\* lines 216-222.  The first lambda closes over the local `progress', which
\* is final; the second formats self.current_step / self.total_steps when
\* it runs (`value' of a status item is therefore not used by RunAfter).
\* `step' records which step posted the item.
on_step_end(t) ==
    LET current_step == threads'[t].global_step
        progress_ == (current_step * 100) \div cb[t].total_steps
    IN  /\ cb' = [cb EXCEPT ![t].current_step = current_step]
        /\ after_queue' = after_queue \o
              << [kind |-> "progress", step |-> current_step, thread |-> t,
                  value |-> progress_],
                 [kind |-> "status", step |-> current_step, thread |-> t,
                  value |-> 0] >>

\* lines 224-227: posts "Epoch {state.epoch} completed"
on_epoch_end(t) ==
    /\ after_queue' = after_queue \o
          << [kind |-> "epoch", step |-> threads[t].global_step,
              thread |-> t, value |-> 0] >>
    /\ UNCHANGED cb

\* the Tk main loop runs the oldest posted callback
RunAfter ==
    /\ ~destroyed
    /\ after_queue # <<>>
    /\ LET item == Head(after_queue)
       IN  /\ after_queue' = Tail(after_queue)
           /\ IF item.kind = "progress"
              THEN /\ progress' = item.value
                   /\ UNCHANGED status
              ELSE /\ status' =
                        IF item.kind = "status"
                        THEN StepText(cb[item.thread].current_step,
                                      cb[item.thread].total_steps)
                        ELSE "Epoch completed"
                   /\ UNCHANGED progress
    /\ UNCHANGED <<data_var, model_var, entries, is_training, is_paused,
                   start_button, pause_button, cancel_button,
                   training_thread, threads, clean_memory_calls, destroyed,
                   last, cb, dataVars>>

\* root.after from the worker once the window is destroyed raises
RelayRaise(t) ==
    /\ destroyed
    /\ threads[t].pc = "train"
    /\ threads[t].in_step
    /\ Raise(t, "TclError")
    /\ ThreadFrame
    /\ UNCHANGED relayVars

RelayArgs(t, steps) ==
    /\ ThreadArgs(t, steps)
    /\ IF threads'[t].pc = "train" THEN on_train_begin(t) ELSE UNCHANGED cb
    /\ UNCHANGED after_queue

RelayStepEnd(t) ==
    /\ ~destroyed
    /\ StepEnd(t, TRUE)
    /\ on_step_end(t)

RelayStepFails(t) ==
    /\ StepEnd(t, FALSE)
    /\ UNCHANGED relayVars

RelayTrainReturns(t) ==
    /\ TrainReturns(t)
    /\ IF threads[t].max_steps >= 1 /\ ~destroyed
       THEN on_epoch_end(t)
       ELSE UNCHANGED <<cb, after_queue>>

relay_train_model(t, steps) ==
    /\ UNCHANGED dataVars
    /\ \/ /\ \E outcome \in {"ok", "engine", "dataset"} :
                ThreadLoad(t, outcome)
          /\ UNCHANGED relayVars
       \/ RelayArgs(t, steps)
       \/ StepBegin(t) /\ UNCHANGED relayVars
       \/ RelayStepEnd(t)
       \/ RelayStepFails(t)
       \/ RelayRaise(t)
       \/ RelayTrainReturns(t)
       \/ /\ \E ok \in BOOLEAN : SaveModel(t, ok)
          /\ UNCHANGED relayVars

NextRelay ==
    \/ /\ \/ \E form \in Forms : SetForm(form)
          \/ start_training(OneJobThreads)
          \/ pause_training
          \/ \E confirmed \in BOOLEAN : cancel_training(confirmed)
          \/ \E confirmed \in BOOLEAN : on_closing(confirmed)
       /\ UNCHANGED <<relayVars, dataVars>>
    \/ \E t \in ThreadIds : relay_train_model(t, MaxSteps)
    \/ RunAfter

SpecRelay == Init /\ [][NextRelay]_vars

\* ------------------------------------------------------- dataset tools
\* the handler's own effect on everything but the selection and the tools
JobUnchanged ==
    /\ UIUnchanged
    /\ UNCHANGED <<threads, clean_memory_calls, destroyed, last, relayVars,
                   device_count, engine>>

\* lines 613-641, called after the handler has set the selection
estimate_memory(env) ==
    estimated' = IF data_var' = "" \/ model_var' = ""
                 THEN estimated
                 ELSE Estimate(env, is_training, device_count)

Existing == {n \in Names : files[n].fmt # "missing"}

\* <<ComboboxSelected>> of data_combo (line 330): Tk stores the chosen
\* value, the binding calls estimate_memory
data_selected(value, env) ==
    /\ ~destroyed
    /\ value \in Existing
    /\ data_var' = value
    /\ UNCHANGED <<model_var, entries, target_format_var, files, loaded,
                   conv>>
    /\ estimate_memory(env)
    /\ JobUnchanged

\* <<ComboboxSelected>> of model_combo (line 352)
model_selected(value, env) ==
    /\ ~destroyed
    /\ model_var' = value
    /\ UNCHANGED <<data_var, entries, target_format_var, files, loaded,
                   conv>>
    /\ estimate_memory(env)
    /\ JobUnchanged

\* the operator picks a value of format_combo (line 340; no binding)
format_selected(value) ==
    /\ ~destroyed
    /\ value # target_format_var
    /\ target_format_var' = value
    /\ JobUnchanged
    /\ UNCHANGED <<data_var, model_var, entries, estimated, files, loaded,
                   conv>>

\* lines 514-518 and 595-602; path "": the dialog was dismissed
browse_dataset(path, env) ==
    /\ ~destroyed
    /\ UNCHANGED <<model_var, entries, target_format_var, files, loaded,
                   conv>>
    /\ IF path = ""
       THEN UNCHANGED <<data_var, estimated>>
       ELSE /\ data_var' = path
            /\ estimate_memory(env)
    /\ JobUnchanged

\* lines 520-524 and 604-611
browse_model(path, env) ==
    /\ ~destroyed
    /\ UNCHANGED <<data_var, entries, target_format_var, files, loaded,
                   conv>>
    /\ IF path = ""
       THEN UNCHANGED <<model_var, estimated>>
       ELSE /\ model_var' = path
            /\ estimate_memory(env)
    /\ JobUnchanged

\* the configuration files followed
Configs ==
    {form \in Forms : /\ form.entries = DefaultEntries
                      /\ (form.data = "") = (form.model = "")}

\* lines 575-593 with a file chosen.  update_data_list and update_model_list
\* select the first entry listed when the file names none; both end in
\* estimate_memory, which sees the same sizes twice.
load_config(config, env) ==
    /\ ~destroyed
    /\ data_var' \in IF config.data = "" /\ Existing # {}
                     THEN Existing
                     ELSE {config.data}
    /\ model_var' \in IF config.model = "" THEN {"", "model"}
                      ELSE {config.model}
    /\ entries' = config.entries
    /\ estimate_memory(env)
    /\ JobUnchanged
    /\ UNCHANGED <<target_format_var, files, loaded, conv>>

\* lines 906-970; the two early returns show an error and change nothing
convert_dataset(env) ==
    /\ ~destroyed
    /\ Len(conv) < MaxConversions
    /\ UNCHANGED <<data_var, model_var, entries, target_format_var, loaded>>
    /\ IF data_var = ""
       THEN UNCHANGED <<files, conv, estimated>>
       ELSE IF files[data_var].fmt = "missing"
       THEN UNCHANGED <<files, conv, estimated>>
       ELSE LET source == files[data_var]
                target == splitext(data_var)[1] \o "." \o target_format_var
                data == ConvertRead(source)
                w == IF data.ok
                     THEN ConvertWrite(data, target_format_var)
                     ELSE [ok |-> FALSE, written |-> FALSE, file |-> Missing]
            IN  /\ files' = IF w.written
                            THEN [files EXCEPT ![target] = w.file]
                            ELSE files
                /\ conv' = Append(conv,
                      [source |-> data_var, format |-> target_format_var,
                       target |-> target, ok |-> w.ok, before |-> source,
                       after |-> files'[data_var]])
                /\ IF w.ok
                   THEN estimate_memory(env)
                   ELSE UNCHANGED estimated
    /\ JobUnchanged

\* CustomDataset(data_path, tokenizer, max_length) on the selected dataset
\* (lines 64-71, called by train_model)
CustomDataset ==
    /\ data_var # ""
    /\ ~loaded.ran
    /\ loaded' = load_data(files[data_var])
    /\ JobUnchanged
    /\ UNCHANGED <<data_var, model_var, entries, estimated,
                   target_format_var, files, conv>>

\* ---- the estimator beside a job
NextEstimate ==
    \/ /\ \/ start_training(OneJobThreads)
          \/ \E confirmed \in BOOLEAN : cancel_training(confirmed)
       /\ UNCHANGED <<relayVars, dataVars>>
    \/ \E value \in Names, env \in Envs : data_selected(value, env)
    \/ \E env \in Envs : model_selected("model", env)
    \/ \E path \in {"", "ds"}, env \in Envs : browse_dataset(path, env)
    \/ \E path \in {"", "model"}, env \in Envs : browse_model(path, env)
    \/ \E config \in Configs, env \in Envs : load_config(config, env)
    \/ \E value \in {"jsonl", "json", "csv"} : format_selected(value)
    \/ \E env \in Envs : convert_dataset(env)

SpecEstimate ==
    InitOf({NoSource, DefaultSource}, {"", "model"}, {0, 1}, Envs)
      /\ [][NextEstimate]_vars

\* ---- the loader on every source
LoadLines ==
    {Obj(Str("a"), Absent), Obj(Str("b"), Str("x.jpg")), Obj(Str(""), Absent),
     Obj(Absent, Absent), Obj(Num("5"), Absent), JStr("a"), Bad}

LoadSources ==
    {Source("ds.jsonl", File("jsonl", "", <<>>, items)) :
        items \in SeqsUpTo(LoadLines, MaxLines)}
    \cup {Source("ds.json", File("json", "list", <<>>, items)) :
             items \in SeqsUpTo(LoadLines \ {Bad}, MaxRecords)}
    \cup {Source("ds.json", File("json", "obj", <<>>, <<o>>)) :
             o \in {i \in LoadLines : i.j = "obj"}}
    \cup {Source("ds.json", File("json", top, <<>>, <<>>)) :
             top \in {"scalar", "bad"}}
    \cup {Source("ds.csv", File("csv", "", <<"text">>, rows)) :
             rows \in SeqsUpTo({Obj(t, Absent) :
                                  t \in {Str("a"), Str(" a"), Str(" "), NaN,
                                         Num("5")}}, MaxRecords)}
    \cup {Source("ds.csv", File("csv", "", <<"text", "image">>, rows)) :
             rows \in SeqsUpTo({Obj(t, i) : t \in {Str("a"), NaN},
                                           i \in {Str("x.jpg"), NaN}},
                               MaxRecords)}
    \cup {Source("ds.csv", File("csv", "", <<"image">>, rows)) :
             rows \in SeqsUpTo({Obj(Absent, Str("x.jpg"))}, MaxRecords)}
    \cup {Source("ds.csv", File("csv", "empty", <<>>, <<>>))}
    \cup {Source("ds", File("dir", "text", <<>>, entries_)) :
             entries_ \in SeqsUpTo({Entry("txt", "a", Absent),
                                    Entry("txt", "", Absent),
                                    Entry("md", "b", Absent),
                                    Entry("png", "a", Absent)}, MaxRecords)}
    \cup {Source("ds", File("dir", "notext", <<>>, <<>>)),
          Source("ds.txt", File("other", "", <<>>, <<>>))}

NextLoad == CustomDataset

SpecLoad ==
    InitOf(LoadSources, {""}, {1}, {QuietEnv}) /\ [][NextLoad]_vars

\* ---- the converter on every source
Records == {Obj(Str(t), i) : t \in {"a", "b"}, i \in {Absent, Str("x.jpg")}}

ConvertSources ==
    {Source("ds.jsonl", File("jsonl", "", <<>>, items)) :
        items \in SeqsUpTo(Records, MaxRecords) \ {<<>>}}
    \cup {Source("ds.jsonl",
                 File("jsonl", "", <<>>, <<Obj(Str("a"), Absent), Bad>>))}
    \cup {Source("ds.json", File("json", "list", <<>>, items)) :
             items \in SeqsUpTo(Records, MaxRecords) \ {<<>>}}
    \cup {Source("ds.json", File("json", "obj", <<>>, <<o>>)) : o \in Records}
    \cup {Source("ds.csv", File("csv", "", <<"text">>, rows)) :
             rows \in SeqsUpTo({Obj(Str(t), Absent) : t \in {"a", "b"}},
                               MaxRecords) \ {<<>>}}
    \cup {Source("ds.csv", File("csv", "", <<"text", "image">>, rows)) :
             rows \in SeqsUpTo({Obj(Str(t), i) : t \in {"a", "b"},
                                               i \in {Str("x.jpg"), NaN}},
                               MaxRecords)}
    \cup {Source("ds", File("dir", "text", <<>>, entries_)) :
             entries_ \in SeqsUpTo({Entry("txt", "a", Absent),
                                    Entry("txt", "b", Str("ds/images/b.jpg")),
                                    Entry("md", "a", Absent)}, MaxRecords)
                            \ {<<>>}}
    \cup {Source("ds", File("dir", "notext", <<>>, <<>>)),
          Source("ds.txt", File("other", "", <<>>, <<>>))}

NextConvert ==
    \/ \E value \in Names, env \in {QuietEnv} : data_selected(value, env)
    \/ \E value \in {"jsonl", "json", "csv"} : format_selected(value)
    \/ \E env \in {QuietEnv} : convert_dataset(env)

SpecConvert ==
    InitOf(ConvertSources, {""}, {1}, {QuietEnv}) /\ [][NextConvert]_vars

\* ---- the loader and the converter on the same source
NextRead ==
    \/ CustomDataset
    \/ \E value \in {"jsonl", "json", "csv"} : format_selected(value)
    \/ \E env \in {QuietEnv} : convert_dataset(env)

SpecRead ==
    InitOf(ConvertSources, {""}, {1}, {QuietEnv}) /\ [][NextRead]_vars

\* ---- a job and the configuration it hands to the engine
\* start_training, remembering the form it found; device_var is what the
\* device combobox (line 361) holds at that time
ArgsStart(device_var) ==
    /\ start_training(OneJobThreads)
    /\ engine' = IF threads' # threads
                 THEN [engine EXCEPT ![training_thread'] =
                          [at_start |-> entries, device_var |-> device_var,
                           args |-> NoArgs]]
                 ELSE engine
    /\ UNCHANGED <<relayVars, toolVars>>

\* lines 798-815 in the worker
ArgsBuilt(t, steps) ==
    /\ ThreadArgs(t, steps)
    /\ engine' = IF threads'[t].pc = "train"
                 THEN [engine EXCEPT ![t].args = TrainingArguments(entries)]
                 ELSE engine
    /\ UNCHANGED <<relayVars, toolVars>>

NextArgs ==
    \/ /\ \/ \E form \in Forms : SetForm(form)
          \/ \E confirmed \in BOOLEAN : cancel_training(confirmed)
          \/ \E t \in ThreadIds :
                \/ \E outcome \in {"ok", "engine", "dataset"} :
                      ThreadLoad(t, outcome)
                \/ StepBegin(t)
                \/ \E ok \in BOOLEAN : StepEnd(t, ok)
                \/ TrainReturns(t)
                \/ \E ok \in BOOLEAN : SaveModel(t, ok)
       /\ UNCHANGED <<relayVars, dataVars>>
    \/ \E device_var \in {"CPU", "GPU"} : ArgsStart(device_var)
    \/ \E t \in ThreadIds : ArgsBuilt(t, OneJobSteps)

SpecArgs == Init /\ [][NextArgs]_vars

\* ================================================================ claims
\* The phase of the job as the flags give it
Phase ==
    IF ~is_training THEN "Idle" ELSE IF is_paused THEN "Paused" ELSE "Running"

Ended == {t \in ThreadIds : threads[t].pc \in {"done", "raised"}}

\* C1: at most one worker thread running train_model is alive at any time.
C1_AtMostOneJobAlive == Cardinality(Alive) <= 1

\* C2: start called while is_training is true changes neither the phase,
\* the paused flag, the progress value nor the training thread, and
\* creates no thread.
C2_StartWhileTrainingIsNoOp ==
    (last.op = "start" /\ last.pre.is_training) =>
        /\ is_training = last.pre.is_training
        /\ is_paused = last.pre.is_paused
        /\ progress = last.pre.progress
        /\ training_thread = last.pre.training_thread
        /\ Cardinality(Created) = last.pre.nthreads

\* C3: a thread on which a confirmed cancel was issued begins no training
\* step after the one in progress at the cancel.
C3_NoStepBeginsAfterCancel ==
    [][\A t \in ThreadIds :
          (threads[t].cancelled /\ ~threads[t].in_step)
              => ~threads'[t].in_step]_vars

\* C4: save_model has run only for jobs that were not cancelled before
\* their training loop returned (and whose loop did not raise).
C4_SaveOnlyWhenCompleted ==
    \A t \in ThreadIds :
        threads[t].saved =>
            ~threads[t].cancelled /\ threads[t].pc # "raised"

\* C5: clean_memory has run once for every job that has ended, and never
\* more often than jobs were started.
C5_CleanupOncePerJob ==
    /\ Cardinality(Ended) <= clean_memory_calls
    /\ clean_memory_calls <= Cardinality(Created)

\* C6: once the current job's train_model has returned after its last
\* step, the step count equals the total and the orchestrator is idle
\* again: is_training is false and the start control is enabled.
C6_CompletedReturnsToIdle ==
    \A t \in ThreadIds :
        ( /\ t = training_thread
          /\ threads[t].pc = "done"
          /\ threads[t].max_steps >= 1
          /\ ~destroyed ) =>
            /\ threads[t].global_step = threads[t].max_steps
            /\ ~is_training
            /\ start_button = "normal"

\* C7: once the current job's thread has ended with an exception, the job
\* is no longer Running or Paused.
C7_FailureLeavesRunning ==
    \A t \in ThreadIds :
        (t = training_thread /\ threads[t].pc = "raised" /\ ~destroyed) =>
            Phase \notin {"Running", "Paused"}

\* C8: a cancel the operator does not confirm leaves is_training,
\* is_paused, the progress value, the status and the three controls as
\* they were.
C8_UnconfirmedCancelChangesNothing ==
    (last.op = "cancel" /\ ~last.confirmed) => JobView = last.pre

C8_Witness ==
    /\ last.op = "cancel"
    /\ ~last.confirmed
    /\ last.pre.is_training
    /\ last.pre.is_paused
    /\ training_thread \in Alive

\* C9: start from Idle with batch_size, epochs or learning_rate that is
\* <= 0 or no number is rejected (no flag, control or thread changes);
\* start from Idle with batch_size 1, epochs 1, learning_rate 1e-5 and a
\* dataset and model selected leaves the job Running with a new thread.
NotPositiveOrNoNumber == {"0", "-1", "abc", ""}

BadStartInput ==
    \E f \in {"batch_size", "epochs", "learning_rate"} :
        entries[f] \in NotPositiveOrNoNumber

C9_StartValidation ==
    (last.op = "start" /\ ~last.pre.is_training) =>
        /\ BadStartInput =>
              /\ ~is_training
              /\ JobView = last.pre
        /\ ( /\ entries["batch_size"] = "1"
             /\ entries["epochs"] = "1"
             /\ entries["learning_rate"] = "1e-5"
             /\ data_var # ""
             /\ model_var # "" ) =>
              /\ Phase = "Running"
              /\ training_thread = last.pre.nthreads + 1
              /\ threads[training_thread].pc # "none"
              /\ start_button = "disabled"

C9_Witness ==
    /\ last.op = "start"
    /\ ~last.pre.is_training
    /\ entries["batch_size"] = "0"
    /\ data_var # ""
    /\ model_var # ""
    /\ last.dialog = "invalid input"

\* C10: a start that takes the job out of Idle was given entries that all
\* pass their check: batch_size, epochs, learning_rate, max_length and
\* gradient_accumulation_steps > 0, warmup_steps and weight_decay >= 0.
IntAtLeast(s, n) == PyInt(s).ok /\ PyInt(s).val >= n

FloatAtLeast(s, n, strict) ==
    LET x == PyFloat(s)
    IN  x.ok /\ ~x.nan /\ (IF strict THEN x.val > n ELSE x.val >= n)

AllFieldsPass(e) ==
    /\ IntAtLeast(e["batch_size"], 1)
    /\ IntAtLeast(e["epochs"], 1)
    /\ FloatAtLeast(e["learning_rate"], 0, TRUE)
    /\ IntAtLeast(e["max_length"], 1)
    /\ IntAtLeast(e["warmup_steps"], 0)
    /\ FloatAtLeast(e["weight_decay"], 0, FALSE)
    /\ IntAtLeast(e["gradient_accumulation_steps"], 1)

C10_AllFieldsValidated ==
    (last.op = "start" /\ ~last.pre.is_training /\ is_training) =>
        AllFieldsPass(entries)

\* C11: pause flips Paused and Running on an active job and never changes
\* is_training; a pause directly after a pause gives back the flags the
\* first one found.
C11_PauseIsToggle ==
    /\ [](last.op = "pause" =>
            /\ is_training = last.pre.is_training
            /\ last.pre.is_training => is_paused = ~last.pre.is_paused
            /\ ~last.pre.is_training => JobView = last.pre)
    /\ [][(last.op = "pause" /\ last'.op = "pause" /\ last' # last) =>
            /\ is_training' = last.pre.is_training
            /\ is_paused' = last.pre.is_paused
            /\ status' = last.pre.status]_vars

C11_Witness ==
    /\ last.op = "pause"
    /\ last.pre.is_paused
    /\ Phase = "Running"
    /\ status = "Training in progress..."

\* C12: while the job is Paused, a step or epoch update coming from the
\* engine and run by the main loop changes neither the status text nor the
\* progress value.
C12_PausedStatusKept ==
    [][(is_paused /\ after_queue # <<>> /\ after_queue' = Tail(after_queue))
          => (status' = status /\ progress' = progress)]_vars

\* C13: when the main loop runs the update posted for step k, the progress
\* value, respectively the status text, it writes is that of step k, whatever
\* the worker has completed since; the worker itself writes neither.
C13_UpdateIsSnapshot ==
    [][/\ (after_queue # <<>> /\ after_queue' = Tail(after_queue)) =>
            LET item == Head(after_queue)
                total == cb[item.thread].total_steps
            IN  /\ item.kind = "progress" =>
                      progress' = (item.step * 100) \div total
                /\ item.kind = "status" =>
                      status' = StepText(item.step, total)
       /\ (threads' # threads /\ last' = last) =>
            (status' = status /\ progress' = progress)]_vars

\* C14: estimate_memory never executes while is_training is true.
C14_NoEstimateWhileTraining == estimated.ran => ~estimated.is_training

\* C15: a completed estimate warns exactly when projected RAM exceeds
\* available RAM or, with a device present, projected VRAM exceeds available
\* VRAM; without a device the RAM comparison alone decides.
C15_WarningIffInsufficient ==
    (estimated.ran /\ ~estimated.failed) =>
        (estimated.warned <=>
            \/ estimated.total_ram > estimated.available_ram
            \/ /\ device_count > 0
               /\ estimated.total_vram > estimated.available_vram)

\* a record whose text is a non-empty string
TextRecord(item) ==
    item.j = "obj" /\ item.text.t = "str" /\ Strip(item.text.v) # ""

\* C16: from a jsonl, json or csv source that holds a record with a
\* non-empty string as text the loader builds, without raising, a Dataset
\* whose records all have such a text; from JSON records it keeps exactly
\* those, in source order.
C16_KeptTextIsString ==
    LET file == files[data_var]
    IN  (loaded.ran /\ file.fmt \in {"jsonl", "json", "csv"}
           /\ file.top \notin {"bad", "empty"}
           /\ SelectSeq(file.items, TextRecord) # <<>>) =>
            /\ loaded.ok
            /\ \A i \in 1 .. Len(loaded.data) : TextRecord(loaded.data[i])
            /\ file.fmt \in {"jsonl", "json"} =>
                  loaded.data = SelectSeq(file.items, TextRecord)

TextFiles(file) ==
    LET Valid(e) == e.j \in {"txt", "md"} /\ e.s # ""
    IN  SelectSeq(file.items, Valid)

\* C18: a Dataset that was constructed has at least one example;
\* construction fails for a directory without text sub-directory or without
\* valid text file, a file whose rows are all invalid, a csv without text
\* column and an unrecognised extension; a directory with exactly one valid
\* text file gives one example.
C18_LoadedIsNonEmpty ==
    LET file == files[data_var]
    IN  loaded.ran =>
          /\ loaded.ok => Len(loaded.data) >= 1
          /\ (file.fmt = "dir" /\ file.top # "text") => ~loaded.ok
          /\ (file.fmt = "dir" /\ TextFiles(file) = <<>>) => ~loaded.ok
          /\ (file.fmt = "dir" /\ file.top = "text"
                /\ Len(TextFiles(file)) = 1) =>
                (loaded.ok /\ Len(loaded.data) = 1)
          /\ (file.fmt \in {"jsonl", "json"}
                /\ SelectSeq(file.items, KeepsItem) = <<>>) => ~loaded.ok
          /\ (file.fmt = "csv" /\ ~Has(file.columns, "text")) => ~loaded.ok
          /\ (file.fmt = "csv" /\ SelectSeq(file.items, KeepsRow) = <<>>) =>
                ~loaded.ok
          /\ file.fmt = "other" => ~loaded.ok

C18_Witness ==
    /\ loaded.ran
    /\ files[data_var].fmt = "dir"
    /\ Len(files[data_var].items) = 2
    /\ Len(TextFiles(files[data_var])) = 1
    /\ Len(loaded.data) = 1

\* the text and image values of a file's records; a record lacks an image
\* when it has no image key, the key holds null or the csv cell is empty
RecordsOf(file) ==
    LET Image(x) ==
            IF x.t \in {"absent", "null"} \/ (file.fmt = "csv" /\ x.t = "nan")
            THEN Absent
            ELSE x
        Values(i) == [j |-> i.j, s |-> i.s, text |-> i.text,
                      image |-> Image(i.image)]
    IN  [k \in 1 .. Len(file.items) |-> Values(file.items[k])]

\* a jsonl, json or csv source of records with a text and an optional image
RecordSource(file) ==
    /\ file.fmt \in {"jsonl", "json", "csv"}
    /\ file.top \in {"", "list", "obj"}
    /\ file.items # <<>>
    /\ SelectSeq(file.items, TextRecord) = file.items

\* C19: converting a source of format A to B and the result back to A
\* succeeds twice and leaves in the A file the text and image values the
\* source had.
C19_RoundTrip ==
    (/\ Len(conv) = 2
     /\ RecordSource(conv[1].before)
     /\ conv[1].format \in {"jsonl", "json", "csv"}
     /\ conv[2].source = conv[1].target
     /\ conv[2].target = conv[1].source) =>
        /\ conv[1].ok
        /\ conv[2].ok
        /\ RecordsOf(files[conv[1].source]) = RecordsOf(conv[1].before)

\* C20: convert_dataset writes to a path other than the source's and
\* leaves the source as it was, whether it succeeds or fails.
C20_NeverInPlace ==
    \A i \in 1 .. Len(conv) :
        /\ conv[i].target # conv[i].source
        /\ conv[i].after = conv[i].before

\* C21: on one source, convert_dataset succeeds in reading exactly when
\* CustomDataset loads, and the records it then serializes are the examples
\* loaded.
C21_ConvertReadsAsLoader ==
    (loaded.ran /\ Len(conv) >= 1 /\ conv[1].source = data_var
       /\ conv[1].before = files[data_var]) =>
        LET data == ConvertRead(conv[1].before)
        IN  /\ data.ok <=> loaded.ok
            /\ data.ok => data.items = loaded.data

\* C22: the configuration the engine of a job is built with is the form as
\* start_training found it: epochs, batch size, learning rate,
\* gradient_accumulation_steps, warmup_steps, weight_decay, max_length and
\* the device.
C22_EngineGetsTheForm ==
    \A t \in ThreadIds :
        engine[t].args.built =>
            LET e == engine[t].at_start
                a == engine[t].args
            IN  /\ a.num_train_epochs = PyInt(e["epochs"]).val
                /\ a.per_device_train_batch_size = PyInt(e["batch_size"]).val
                /\ a.learning_rate = PyFloat(e["learning_rate"]).val
                /\ a.gradient_accumulation_steps =
                      PyInt(e["gradient_accumulation_steps"]).val
                /\ a.warmup_steps = PyInt(e["warmup_steps"]).val
                /\ a.weight_decay = PyFloat(e["weight_decay"]).val
                /\ a.max_length = PyInt(e["max_length"]).val
                /\ (a.device = "cuda") = (engine[t].device_var = "GPU")

\* C23: while the window exists the start control is enabled exactly when
\* is_training is false, the pause and cancel controls exactly when it is
\* true, and is_paused implies is_training; pause and cancel called while
\* is_training is false leave the job state as they found it.
C23_ControlsAgreeWithFlags ==
    /\ ~destroyed =>
          /\ (start_button = "normal") <=> ~is_training
          /\ (pause_button.state = "normal") <=> is_training
          /\ (cancel_button = "normal") <=> is_training
          /\ is_paused => is_training
    /\ (last.op \in {"pause", "cancel"} /\ ~last.pre.is_training) =>
          JobView = last.pre

C23_Witness ==
    /\ ~destroyed
    /\ last.op = "cancel"
    /\ ~last.pre.is_training
    /\ Cardinality(Created) = 1
    /\ status = "Training cancelled."
    /\ start_button = "normal"

====
